---- MODULE Spec2Model ----
(***************************************************************************)
(* Model of scripts/run_synthseg.py: the batch driver that records the     *)
(* SynthSeg container in the output dataset's dataset_description.json     *)
(* under a soft file lock, then visits every anatomical image, resolves    *)
(* its brain mask, runs the container and maps its scratch files into the  *)
(* output dataset.                                                         *)
(*                                                                         *)
(* File names are sequences of tokens, so that the regular expression of   *)
(* line 243 and the glob of line 259 are computed on the names.  A JSON    *)
(* value that may be absent, null or a list is a record with a kind.       *)
(***************************************************************************)
EXTENDS Integers, Sequences, FiniteSets, TLC

\* Number of runs of the script (processes) against one output dataset.
NumProcs == 2
\* Length of the anatomical image list.
NumItems == 2
\* Polls of an occupied lock file before the SoftFileLock timeout expires.
MaxPolls == 1
\* Characters per line and lines per file of the CSV inputs.
MaxLineLen == 2
MaxLines == 2

Procs == 1..NumProcs

VARIABLES
    singularity,        \* shutil.which('singularity') is not None
    input_desc,         \* input dataset descriptor: "absent", "noname", "named"
    container_info,     \* per run: the record get_container_info returns
    desc,               \* output dataset's dataset_description.json
    lock_file,          \* synthseg_dataset_metadata.lock exists
    is_locked,          \* per run: its SoftFileLock object holds the lock
    loaded,             \* per run: the descriptor as read inside the lock
    polls,              \* per run: failed attempts on the lock so far
    pc,                 \* per run: position in the script
    err,                \* per run: the exception raised, or "none"
    idx,                \* per run: images of the list visited so far
    anatomical_images,  \* args.anatomical_images
    input_files,        \* files of the input dataset
    mask_files,         \* files of the mask dataset
    output_files,       \* files of the output dataset (besides the descriptor)
    invoked,            \* singularity run calls made: [proc, input, mask]
    messages,           \* per run: what the loop printed for each image visited
    csv_orig,           \* the CSV file the first csv_to_bids_tsv call reads
    csv_prev,           \* the file the last csv_to_bids_tsv call read
    csv_file,           \* the file the last csv_to_bids_tsv call wrote
    csv_calls           \* csv_to_bids_tsv calls made, each on the last output

metaVars == <<singularity, input_desc, container_info, desc, lock_file,
              is_locked, loaded, polls, pc, err>>
itemVars == <<idx, anatomical_images, input_files, mask_files, output_files,
              invoked, messages>>
csvVars == <<csv_orig, csv_prev, csv_file, csv_calls>>
vars == <<metaVars, itemVars, csvVars>>

----------------------------------------------------------------------------
(* get_container_info: the records it can return *)

ContainerInfos ==
    { [tag |-> "synthseg-mask:1", version |-> "1", git_remote |-> "origin-a"],
      [tag |-> "synthseg-mask:1", version |-> "1", git_remote |-> "origin-b"],
      [tag |-> "synthseg-mask:2", version |-> "2", git_remote |-> "origin-a"] }

----------------------------------------------------------------------------
(* get_generated_by *)

\* Python's None for the optional list argument, and a given list.
NoneList == [isNone |-> TRUE, list |-> <<>>]
SomeList(l) == [isNone |-> FALSE, list |-> l]

gen_dict(ci) ==
    [Name |-> "SynthSeg",
     Version |-> ci.version,
     CodeURL |-> ci.git_remote,
     Container |-> [Type |-> "singularity", Tag |-> ci.tag]]

\* The test of line 82 on one entry.
SameGeneratorByVersion(gb, ci) ==
    gb.Name = "SynthSeg" /\ gb.Version = ci.tag
SameGenerator(gb, ci) ==
    gb.Name = "SynthSeg" /\ gb.Container.Tag = ci.tag

AlreadyListed(ci, l) == \E k \in 1..Len(l) : SameGenerator(l[k], ci)

get_generated_by_always_append(ci, existing) ==
    Append(existing.list, gen_dict(ci))
get_generated_by(ci, existing) ==
    IF ~existing.isNone /\ AlreadyListed(ci, existing.list)
    THEN existing.list
    ELSE Append(existing.list, gen_dict(ci))

----------------------------------------------------------------------------
(* dataset_description.json of the output dataset *)

Absent ==
    [exists |-> FALSE, hasName |-> FALSE, Name |-> <<>>,
     gbKind |-> "missing", GeneratedBy |-> <<>>]

Descriptor(hasName, gbKind, gb) ==
    [exists |-> TRUE, hasName |-> hasName,
     Name |-> IF hasName THEN <<"prior">> ELSE <<>>,
     gbKind |-> gbKind, GeneratedBy |-> gb]

\* The Name get_dataset_name returns for a valid input dataset.
InputName == <<"input">>

\* An entry another pipeline left, carrying the tag of a SynthSeg container.
OtherEntry ==
    [Name |-> "OtherPipeline", Version |-> "1", CodeURL |-> "origin-a",
     Container |-> [Type |-> "singularity", Tag |-> "synthseg-mask:1"]]
FirstEntryInfo ==
    [tag |-> "synthseg-mask:1", version |-> "1", git_remote |-> "origin-a"]
FirstEntry == gen_dict(FirstEntryInfo)

PriorLists == { <<>>, <<OtherEntry>>, <<FirstEntry>>, <<OtherEntry, FirstEntry>> }

PriorDescriptors ==
    {Absent}
    \cup { Descriptor(n, "missing", <<>>) : n \in BOOLEAN }
    \cup { Descriptor(n, "null", <<>>) : n \in BOOLEAN }
    \cup { Descriptor(n, "list", l) : n \in BOOLEAN, l \in PriorLists }

\* The body of the with-block of update_output_dataset (lines 111-140) on the
\* descriptor d it finds: the descriptor it leaves and the exception raised.
WriteBack(d, generated_by) ==
    d.gbKind = "null" \/ Len(generated_by) > Len(d.GeneratedBy)

update_descriptor(d, input_dataset_name, ci) ==
    IF ~d.exists
    THEN [desc |-> [exists |-> TRUE, hasName |-> TRUE,
                    Name |-> input_dataset_name \o <<"_synthseg">>,
                    gbKind |-> "list",
                    GeneratedBy |-> get_generated_by(ci, NoneList)],
          err |-> "none"]
    ELSE IF ~d.hasName \/ d.gbKind = "missing"
    THEN \* KeyError at line 132 or 133, re-raised as ValueError at line 139
         [desc |-> d, err |-> "ValueError"]
    ELSE LET existing == IF d.gbKind = "null" THEN NoneList
                         ELSE SomeList(d.GeneratedBy)
             generated_by == get_generated_by(ci, existing)
         IN  IF WriteBack(d, generated_by)
             THEN [desc |-> [d EXCEPT !.gbKind = "list",
                                      !.GeneratedBy = generated_by],
                   err |-> "none"]
             ELSE [desc |-> d, err |-> "none"]

----------------------------------------------------------------------------
(* The script up to the loop: pre-flight and update_output_dataset *)

\* Lines 210-211, 228, 103 (get_dataset_name): the exception of the pre-flight.
PreflightErrorNoNameCheck ==
    IF ~singularity THEN "RuntimeError"
    ELSE IF input_desc = "absent" THEN "FileNotFoundError"
    ELSE "none"
PreflightError ==
    IF ~singularity THEN "RuntimeError"
    ELSE IF input_desc = "absent" THEN "FileNotFoundError"
    ELSE IF input_desc = "noname" THEN "ValueError"
    ELSE "none"

Preflight(p) ==
    /\ pc[p] = "start"
    /\ pc' = [pc EXCEPT ![p] = IF PreflightError = "none" THEN "acquire"
                                ELSE "failed"]
    /\ err' = [err EXCEPT ![p] = PreflightError]
    /\ UNCHANGED <<singularity, input_desc, container_info, desc, lock_file,
                   is_locked, loaded, polls>>
    /\ UNCHANGED <<itemVars, csvVars>>

\* SoftFileLock.acquire: os.open(lock_file, O_CREAT | O_EXCL) succeeds only
\* when the file does not exist.
LockAvailableAlways == TRUE
LockAvailable == ~lock_file

AcquireLock(p) ==
    /\ pc[p] = "acquire"
    /\ LockAvailable
    /\ lock_file' = TRUE
    /\ is_locked' = [is_locked EXCEPT ![p] = TRUE]
    /\ pc' = [pc EXCEPT ![p] = "locked"]
    /\ UNCHANGED <<singularity, input_desc, container_info, desc, loaded,
                   polls, err>>
    /\ UNCHANGED <<itemVars, csvVars>>

\* The lock file exists: sleep for the poll interval and try again.
PollLock(p) ==
    /\ pc[p] = "acquire"
    /\ ~LockAvailable
    /\ polls[p] < MaxPolls
    /\ polls' = [polls EXCEPT ![p] = polls[p] + 1]
    /\ UNCHANGED <<singularity, input_desc, container_info, desc, lock_file,
                   is_locked, loaded, pc, err>>
    /\ UNCHANGED <<itemVars, csvVars>>

\* timeout=30 has expired with the lock file still there: filelock.Timeout.
LockTimeout(p) ==
    /\ pc[p] = "acquire"
    /\ ~LockAvailable
    /\ polls[p] = MaxPolls
    /\ pc' = [pc EXCEPT ![p] = "failed"]
    /\ err' = [err EXCEPT ![p] = "Timeout"]
    /\ UNCHANGED <<singularity, input_desc, container_info, desc, lock_file,
                   is_locked, loaded, polls>>
    /\ UNCHANGED <<itemVars, csvVars>>

\* Lines 111 and 124-125: does the descriptor exist, and what does it hold.
ReadDescriptor(p) ==
    /\ pc[p] = "locked"
    /\ loaded' = [loaded EXCEPT ![p] = desc]
    /\ pc' = [pc EXCEPT ![p] = "loaded"]
    /\ UNCHANGED <<singularity, input_desc, container_info, desc, lock_file,
                   is_locked, polls, err>>
    /\ UNCHANGED <<itemVars, csvVars>>

\* Lines 113-120 or 127-140 on what was read.
WriteDescriptor(p) ==
    /\ pc[p] = "loaded"
    /\ LET r == update_descriptor(loaded[p], InputName, container_info[p])
       IN  /\ desc' = IF r.desc = loaded[p] THEN desc ELSE r.desc
           /\ err' = [err EXCEPT ![p] = r.err]
    /\ pc' = [pc EXCEPT ![p] = "release"]
    /\ UNCHANGED <<singularity, input_desc, container_info, lock_file,
                   is_locked, loaded, polls>>
    /\ UNCHANGED <<itemVars, csvVars>>

\* Leaving the with-block, normally or by the exception: SoftFileLock.release
\* removes the lock file.
ReleaseLockUnlessRaised(p) ==
    /\ pc[p] = "release"
    /\ IF err[p] = "none"
       THEN /\ lock_file' = FALSE
            /\ is_locked' = [is_locked EXCEPT ![p] = FALSE]
       ELSE UNCHANGED <<lock_file, is_locked>>
    /\ pc' = [pc EXCEPT ![p] = IF err[p] = "none" THEN "loop" ELSE "failed"]
    /\ UNCHANGED <<singularity, input_desc, container_info, desc, loaded,
                   polls, err>>
    /\ UNCHANGED <<itemVars, csvVars>>
ReleaseLock(p) ==
    /\ pc[p] = "release"
    /\ lock_file' = FALSE
    /\ is_locked' = [is_locked EXCEPT ![p] = FALSE]
    /\ pc' = [pc EXCEPT ![p] = IF err[p] = "none" THEN "loop" ELSE "failed"]
    /\ UNCHANGED <<singularity, input_desc, container_info, desc, loaded,
                   polls, err>>
    /\ UNCHANGED <<itemVars, csvVars>>

----------------------------------------------------------------------------
(* The loop over the anatomical images (lines 233-429) *)

Words == {"T1w"}

ImageNames ==
    { <<"sub-1", "_", "T1w", ".nii.gz">>,
      <<"sub-1", "0", "_", "T1w", ".nii.gz">>,
      <<"sub-1", ".nii.gz">> }

MaskNames ==
    { <<"sub-1", "_desc-brain_mask.nii.gz">>,
      <<"sub-1", "_space-T1w", "_desc-brain_mask.nii.gz">>,
      <<"sub-1", "0", "_desc-brain_mask.nii.gz">> }

\* re.match('(.*)_(\w+)\.nii\.gz$', input_anatomical) is not None
RegexMatches(name) ==
    /\ Len(name) >= 3
    /\ name[Len(name)] = ".nii.gz"
    /\ name[Len(name) - 1] \in Words
    /\ name[Len(name) - 2] = "_"

anatomical_prefix(name) == SubSeq(name, 1, Len(name) - 3)
anatomical_suffix(name) == name[Len(name) - 1]

\* glob.glob(f"{brain_mask_full_path_prefix}*_desc-brain_mask.nii.gz")
brain_mask_files(prefix) ==
    { f \in mask_files :
        /\ Len(f) >= Len(prefix) + 1
        /\ SubSeq(f, 1, Len(prefix)) = prefix
        /\ f[Len(f)] = "_desc-brain_mask.nii.gz" }

seg_out_full_path(prefix) == prefix \o <<"_space-SynthSeg_dseg", ".nii.gz">>

\* What one iteration does with the image, by the tests of lines 237-284.
MaskCountAllowsSome(n) == n >= 1
MaskCountAllows(n) == n = 1
OutputExistsNever(prefix) == FALSE
OutputExists(prefix) == seg_out_full_path(prefix) \in output_files

ItemVerdict(name) ==
    IF name \notin input_files THEN "input not found"
    ELSE IF ~RegexMatches(name) THEN "AttributeError"
    ELSE LET n == Cardinality(brain_mask_files(anatomical_prefix(name)))
         IN  IF n = 0 THEN "mask not found"
             ELSE IF ~MaskCountAllows(n) THEN "multiple masks"
             ELSE IF OutputExists(anatomical_prefix(name))
                  THEN "output exists"
                  ELSE "run"

SkipVerdicts ==
    {"input not found", "mask not found", "multiple masks", "output exists"}

\* The files SynthSeg may leave in the scratch directory for one image.
ScratchKinds ==
    {"SynthSeg.nii.gz", "SynthSegInput.nii.gz", "SynthSegOrig.nii.gz",
     "QC.csv", "Volumes.csv"}

\* Lines 310-386 in order: each step reads a scratch file, a file of the
\* output dataset, or nothing, and writes one file of the output dataset.
OutputSteps(prefix, suffix) ==
    << [from |-> "scratch", src |-> <<"SynthSeg.nii.gz">>,
        dst |-> seg_out_full_path(prefix)],
       [from |-> "script", src |-> <<>>,
        dst |-> prefix \o <<"_space-SynthSeg_dseg", ".tsv">>],
       [from |-> "scratch", src |-> <<"SynthSegInput.nii.gz">>,
        dst |-> prefix \o <<"_space-SynthSeg_", suffix, ".nii.gz">>],
       [from |-> "scratch", src |-> <<"SynthSegOrig.nii.gz">>,
        dst |-> prefix \o <<"_space-orig_dseg", ".nii.gz">>],
       [from |-> "output", src |-> prefix \o <<"_space-SynthSeg_dseg", ".tsv">>,
        dst |-> prefix \o <<"_space-orig_dseg", ".tsv">>],
       [from |-> "scratch", src |-> <<"QC.csv">>,
        dst |-> prefix \o <<"_desc-qc.tsv">>],
       [from |-> "scratch", src |-> <<"Volumes.csv">>,
        dst |-> prefix \o <<"_desc-volumes.tsv">>] >>

SourceExists(step, produced, files) ==
    CASE step.from = "scratch" -> step.src[1] \in produced
      [] step.from = "output" -> step.src \in files
      [] OTHER -> TRUE

\* The output dataset after the steps from k on, and the exception of the
\* first step whose source is missing.
RECURSIVE map_outputs(_, _, _, _)
map_outputs(steps, k, produced, files) ==
    IF k > Len(steps) THEN [files |-> files, err |-> "none"]
    ELSE IF ~SourceExists(steps[k], produced, files)
    THEN [files |-> files, err |-> "FileNotFoundError"]
    ELSE map_outputs(steps, k + 1, produced, files \cup {steps[k].dst})

CurrentImage(p) == anatomical_images[idx[p] + 1]

\* The four `continue` statements of lines 239, 263, 266 and 284.
AfterSkipBreak(p) == [idx EXCEPT ![p] = Len(anatomical_images)]
AfterSkip(p) == [idx EXCEPT ![p] = idx[p] + 1]
SkipItem(p) ==
    /\ pc[p] = "loop"
    /\ idx[p] < Len(anatomical_images)
    /\ ItemVerdict(CurrentImage(p)) \in SkipVerdicts
    /\ messages' = [messages EXCEPT
                      ![p] = Append(messages[p], ItemVerdict(CurrentImage(p)))]
    /\ idx' = AfterSkip(p)
    /\ UNCHANGED <<anatomical_images, input_files, mask_files, output_files,
                   invoked>>
    /\ UNCHANGED <<metaVars, csvVars>>

\* match is None at line 246: the run ends with AttributeError.
RaiseOnName(p) ==
    /\ pc[p] = "loop"
    /\ idx[p] < Len(anatomical_images)
    /\ ItemVerdict(CurrentImage(p)) = "AttributeError"
    /\ pc' = [pc EXCEPT ![p] = "failed"]
    /\ err' = [err EXCEPT ![p] = "AttributeError"]
    /\ UNCHANGED <<singularity, input_desc, container_info, desc, lock_file,
                   is_locked, loaded, polls>>
    /\ UNCHANGED <<itemVars, csvVars>>

\* Lines 287-386: singularity run, then the copies into the output dataset.
RunItem(p) ==
    /\ pc[p] = "loop"
    /\ idx[p] < Len(anatomical_images)
    /\ ItemVerdict(CurrentImage(p)) = "run"
    /\ LET name == CurrentImage(p)
           prefix == anatomical_prefix(name)
           brain_mask == CHOOSE f \in brain_mask_files(prefix) : TRUE
       IN  \E produced \in SUBSET ScratchKinds :
             LET r == map_outputs(OutputSteps(prefix, anatomical_suffix(name)),
                                  1, produced, output_files)
             IN  /\ invoked' = invoked \cup
                       {[proc |-> p, input |-> name, mask |-> brain_mask]}
                 /\ output_files' = r.files
                 /\ err' = [err EXCEPT ![p] = r.err]
                 /\ IF r.err = "none"
                    THEN /\ idx' = [idx EXCEPT ![p] = idx[p] + 1]
                         /\ messages' = [messages EXCEPT
                                           ![p] = Append(messages[p], "processed")]
                         /\ pc' = pc
                    ELSE /\ pc' = [pc EXCEPT ![p] = "failed"]
                         /\ UNCHANGED <<idx, messages>>
    /\ UNCHANGED <<anatomical_images, input_files, mask_files>>
    /\ UNCHANGED <<singularity, input_desc, container_info, desc, lock_file,
                   is_locked, loaded, polls>>
    /\ UNCHANGED csvVars

\* The list is exhausted: the script ends.
EndLoop(p) ==
    /\ pc[p] = "loop"
    /\ idx[p] = Len(anatomical_images)
    /\ pc' = [pc EXCEPT ![p] = "done"]
    /\ UNCHANGED <<singularity, input_desc, container_info, desc, lock_file,
                   is_locked, loaded, polls, err>>
    /\ UNCHANGED <<itemVars, csvVars>>

----------------------------------------------------------------------------
(* csv_to_bids_tsv (lines 143-163) *)

\* A file is the sequence of its lines, a line the sequence of its characters
\* without the newline that ends it.
Whitespace == {" ", "\t"}
\* The characters of the CSV files SynthSeg writes.
Chars == {"a", " ", ","}

RECURSIVE SeqsUpTo(_, _)
SeqsUpTo(S, n) ==
    IF n = 0 THEN {<<>>}
    ELSE LET shorter == SeqsUpTo(S, n - 1)
         IN  shorter \cup { Append(q, x) : q \in shorter, x \in S }

CsvLines == SeqsUpTo(Chars, MaxLineLen)
CsvFiles == SeqsUpTo(CsvLines, MaxLines)

\* str.rstrip(): drop the trailing whitespace (the newline included).
RECURSIVE rstrip(_)
rstrip(line) ==
    IF line # <<>> /\ line[Len(line)] \in Whitespace
    THEN rstrip(SubSeq(line, 1, Len(line) - 1))
    ELSE line

\* str.replace(old, new) for one-character strings.
replace_first(line, old, new) ==
    [k \in 1..Len(line) |->
        IF line[k] = old /\ \A j \in 1..(k - 1) : line[j] # old
        THEN new ELSE line[k]]
replace(line, old, new) ==
    [k \in 1..Len(line) |-> IF line[k] = old THEN new ELSE line[k]]

convert_header(line) ==
    replace(replace(rstrip(line), " ", "_"), ",", "\t")
convert_row(line) == replace(rstrip(line), ",", "\t")

\* readline() on an empty file returns '', and the header is always written.
csv_to_bids_tsv(file) ==
    LET header == IF file = <<>> THEN <<>> ELSE file[1]
        lines == IF file = <<>> THEN <<>> ELSE Tail(file)
    IN  <<convert_header(header)>>
        \o [k \in 1..Len(lines) |-> convert_row(lines[k])]

Convert ==
    /\ csv_calls < 2
    /\ csv_prev' = csv_file
    /\ csv_file' = csv_to_bids_tsv(csv_file)
    /\ csv_calls' = csv_calls + 1
    /\ UNCHANGED csv_orig
    /\ UNCHANGED <<metaVars, itemVars>>

----------------------------------------------------------------------------
(* Specifications *)

InitProcs ==
    /\ is_locked = [p \in Procs |-> FALSE]
    /\ loaded = [p \in Procs |-> Absent]
    /\ polls = [p \in Procs |-> 0]
    /\ pc = [p \in Procs |-> "start"]
    /\ err = [p \in Procs |-> "none"]
    /\ idx = [p \in Procs |-> 0]
    /\ messages = [p \in Procs |-> <<>>]
    /\ invoked = {}

InitNoCsv ==
    /\ csv_orig = <<>>
    /\ csv_prev = <<>>
    /\ csv_file = <<>>
    /\ csv_calls = 0

\* Runs of update_output_dataset that overlap in time, on any prior
\* descriptor, with a lock file that may have been left behind.
InitMeta ==
    /\ singularity \in BOOLEAN
    /\ input_desc \in {"absent", "noname", "named"}
    /\ container_info \in [Procs -> ContainerInfos]
    /\ desc \in PriorDescriptors
    /\ lock_file \in BOOLEAN
    /\ anatomical_images = <<>>
    /\ input_files = {}
    /\ mask_files = {}
    /\ output_files = {}
    /\ InitProcs
    /\ InitNoCsv

MetaStep(p) ==
    \/ Preflight(p)
    \/ AcquireLock(p)
    \/ PollLock(p)
    \/ LockTimeout(p)
    \/ ReadDescriptor(p)
    \/ WriteDescriptor(p)
    \/ ReleaseLock(p)

NextMeta == \E p \in Procs : MetaStep(p)

SpecMeta == InitMeta /\ [][NextMeta]_vars

\* Every run that can take a step eventually takes one.
FairMeta == SpecMeta /\ \A p \in Procs : WF_vars(MetaStep(p))

\* Runs of the whole script one after the other (a run and its re-runs) on
\* the same datasets with the same container.
Init ==
    /\ singularity \in BOOLEAN
    /\ input_desc \in {"absent", "noname", "named"}
    /\ container_info \in { [p \in Procs |-> ci] : ci \in {FirstEntryInfo} }
    /\ desc \in {Absent, Descriptor(TRUE, "list", <<FirstEntry>>)}
    /\ lock_file \in BOOLEAN
    /\ anatomical_images \in [1..NumItems -> ImageNames]
    /\ input_files \in SUBSET ImageNames
    /\ mask_files \in SUBSET MaskNames
    /\ output_files = {}
    /\ InitProcs
    /\ InitNoCsv

Terminated(p) == pc[p] \in {"done", "failed"}
Turn(p) == \A q \in Procs : q < p => Terminated(q)

\* A run starts once the runs before it have ended.
StartRun(p) == Turn(p) /\ Preflight(p)

Next ==
    \E p \in Procs :
        \/ StartRun(p)
        \/ AcquireLock(p)
        \/ PollLock(p)
        \/ LockTimeout(p)
        \/ ReadDescriptor(p)
        \/ WriteDescriptor(p)
        \/ ReleaseLock(p)
        \/ SkipItem(p)
        \/ RaiseOnName(p)
        \/ RunItem(p)
        \/ EndLoop(p)

Spec == Init /\ [][Next]_vars

\* csv_to_bids_tsv applied to a CSV file, then to its own output.
InitCsv ==
    /\ csv_orig \in CsvFiles
    /\ csv_prev = <<>>
    /\ csv_file = csv_orig
    /\ csv_calls = 0
    /\ singularity = TRUE
    /\ input_desc = "named"
    /\ container_info = [p \in Procs |-> FirstEntryInfo]
    /\ desc = Absent
    /\ lock_file = FALSE
    /\ anatomical_images = <<>>
    /\ input_files = {}
    /\ mask_files = {}
    /\ output_files = {}
    /\ InitProcs

NextCsv == Convert

SpecCsv == InitCsv /\ [][NextCsv]_vars

----------------------------------------------------------------------------
(* Properties of update_output_dataset *)

\* The descriptor lists the SynthSeg container with the tag of ci.
HasGenerator(d, ci) ==
    /\ d.exists
    /\ d.gbKind = "list"
    /\ \E k \in 1..Len(d.GeneratedBy) :
          /\ d.GeneratedBy[k].Name = "SynthSeg"
          /\ d.GeneratedBy[k].Container.Tag = ci.tag

\* No two entries of the list share Name and Container.Tag.
NoDuplicateGenerators(d) ==
    \A j, k \in 1..Len(d.GeneratedBy) :
        ( /\ d.GeneratedBy[j].Name = d.GeneratedBy[k].Name
          /\ d.GeneratedBy[j].Container.Tag = d.GeneratedBy[k].Container.Tag )
        => j = k

IsPrefix(s, t) == Len(s) <= Len(t) /\ SubSeq(t, 1, Len(s)) = s

\* The run is between acquiring and releasing the lock.
InCriticalSection(p) == pc[p] \in {"locked", "loaded", "release"}

\* update_output_dataset has returned or raised after entering the with-block.
CallEnded(p) ==
    \/ pc[p] \in {"loop", "done"}
    \/ pc[p] = "failed" /\ loaded[p].exists /\ err[p] = "ValueError"

\* The name update_output_dataset gives a descriptor it creates.
CreatedName == InputName \o <<"_synthseg">>

\* C1: whatever the output descriptor was (absent; with a Name and a
\* GeneratedBy list; with a Name and no GeneratedBy key or a null one), a run
\* with a valid input dataset that holds the lock ends the with-block without
\* an exception, and the descriptor then exists and lists its container.
C1_UpdateAlwaysRecords ==
    \A p \in Procs :
        ( /\ pc[p] = "release"
          /\ (~loaded[p].exists \/ loaded[p].hasName) )
        => /\ err[p] = "none"
           /\ HasGenerator(desc, container_info[p])

\* C2: once a call with some container info has ended, a later call with the
\* same container info leaves the GeneratedBy value of the descriptor as it
\* found it, whatever the descriptor was before the first call.
C2_SecondCallChangesNothing ==
    [][ (\E p, q \in Procs :
            /\ p # q
            /\ container_info[p] = container_info[q]
            /\ CallEnded(q)
            /\ InCriticalSection(p))
        => /\ desc'.gbKind = desc.gbKind
           /\ desc'.GeneratedBy = desc.GeneratedBy ]_vars

C2_Witness ==
    \E p, q \in Procs :
        /\ p # q
        /\ container_info[p] = container_info[q]
        /\ pc[q] = "loop"
        /\ pc[p] = "release"
        /\ err[p] = "none"
        /\ HasGenerator(desc, container_info[p])

\* C3: the GeneratedBy list never holds two entries with the same Name and
\* Container.Tag, and a call never removes or alters an entry that is there:
\* the list before a step is a prefix of the list after it.
C3_NoDuplicateNoLoss ==
    /\ [](NoDuplicateGenerators(desc))
    /\ [][ /\ desc.exists => desc'.exists
           /\ IsPrefix(desc.GeneratedBy, desc'.GeneratedBy) ]_vars

\* Two calls with the same tag and different code URLs on a descriptor the
\* first of them created: one entry, the first call's.
C3_Witness ==
    \E p, q \in Procs :
        /\ p # q
        /\ container_info[p].tag = container_info[q].tag
        /\ container_info[p].git_remote # container_info[q].git_remote
        /\ pc[p] = "loop"
        /\ pc[q] = "loop"
        /\ desc.Name = CreatedName
        /\ Len(desc.GeneratedBy) = 1

\* C4: at most one run is between acquiring and releasing the lock, and once
\* every run has ended, the container of each run that returned without an
\* error is listed and no (Name, Container.Tag) pair is listed twice.
C4_MutualExclusionNoLostUpdate ==
    /\ Cardinality({p \in Procs : InCriticalSection(p)}) <= 1
    /\ Cardinality({p \in Procs : is_locked[p]}) <= 1
    /\ (\A p \in Procs : pc[p] \in {"loop", "failed"})
       => /\ \A p \in Procs :
               pc[p] = "loop" => HasGenerator(desc, container_info[p])
          /\ NoDuplicateGenerators(desc)

\* Two runs with different tags contended for the lock and both returned.
C4_Witness ==
    \E p, q \in Procs :
        /\ container_info[p].tag # container_info[q].tag
        /\ pc[p] = "loop"
        /\ pc[q] = "loop"
        /\ polls[q] > 0
        /\ \A r \in Procs : pc[r] \in {"loop", "failed"}

\* The lock file is there and no run holds it.
StaleLock == lock_file /\ \A p \in Procs : ~is_locked[p]

\* C10: with a lock file that is there and never released, every run ends
\* in failure, a run that passed the pre-flight with filelock's Timeout, and
\* the descriptor is neither read nor written; a run that timed out has read
\* nothing; and a run that acquired the lock has released it, the lock file
\* removed, when update_output_dataset ends, normally or by an exception.
C10_BoundedWaitAndRelease ==
    /\ StaleLock ~> (\A p \in Procs : pc[p] = "failed")
    /\ [](StaleLock =>
            \A p \in Procs :
                /\ pc[p] \in {"start", "acquire", "failed"}
                /\ (pc[p] = "failed" /\ singularity /\ input_desc = "named")
                   => err[p] = "Timeout")
    /\ [][StaleLock => desc' = desc /\ loaded' = loaded]_vars
    /\ [](\A p \in Procs : err[p] = "Timeout" => ~loaded[p].exists)
    /\ [](\A p \in Procs :
            pc[p] \in {"loop", "done", "failed"} => ~is_locked[p])
    /\ [][\A p \in Procs :
            (pc[p] = "release" /\ pc'[p] # "release")
            => (~lock_file' /\ ~is_locked'[p])]_vars

\* A run gave up on a lock file nobody holds.
C10_Witness ==
    \E p \in Procs :
        /\ StaleLock
        /\ pc[p] = "failed"
        /\ err[p] = "Timeout"
        /\ polls[p] = MaxPolls
        /\ desc.exists

----------------------------------------------------------------------------
(* Properties of the loop *)

Images == 1..Len(anatomical_images)

\* The run is about to visit an image.
Visiting(p) == pc[p] = "loop" /\ idx[p] < Len(anatomical_images)

GlobCount(name) == Cardinality(brain_mask_files(anatomical_prefix(name)))

MarkerExists(name) ==
    (anatomical_prefix(name) \o <<"_space-SynthSeg_dseg", ".nii.gz">>)
        \in output_files

\* C5: the container was run for an image only if the glob on its prefix
\* matched exactly one file of the mask dataset, and with that file as the
\* mask; and an image that exists and whose glob matches no file or more
\* than one is passed over: no container run, no file written, next image.
C5_ExactlyOneMask ==
    /\ [](\A r \in invoked :
            /\ r.input \in input_files
            /\ brain_mask_files(anatomical_prefix(r.input)) = {r.mask})
    /\ [][\A p \in Procs :
            ( /\ Visiting(p)
              /\ CurrentImage(p) \in input_files
              /\ RegexMatches(CurrentImage(p))
              /\ GlobCount(CurrentImage(p)) # 1 )
            => /\ invoked' = invoked
               /\ output_files' = output_files
               /\ pc'[p] = "loop"
               /\ idx'[p] = idx[p] + 1]_vars

\* One image of the list was passed over for its two masks, another was
\* run with the only mask its glob matched.
C5_Witness ==
    \E p \in Procs :
        /\ \E k \in 1..Len(messages[p]) : messages[p][k] = "multiple masks"
        /\ \E r \in invoked :
              /\ r.proc = p
              /\ Cardinality(mask_files) > 1
              /\ brain_mask_files(anatomical_prefix(r.input)) = {r.mask}

\* C6: a run that visits an image whose segmentation file is already in the
\* output dataset, or whose input file does not exist, runs no container
\* for it and leaves the output dataset as it is, and goes on to the next.
C6_RerunIsNoOp ==
    [][\A p \in Procs :
          ( /\ Visiting(p)
            /\ \/ CurrentImage(p) \notin input_files
               \/ /\ RegexMatches(CurrentImage(p))
                  /\ MarkerExists(CurrentImage(p)) )
          => /\ invoked' = invoked
             /\ output_files' = output_files
             /\ pc'[p] = "loop"
             /\ idx'[p] = idx[p] + 1]_vars

\* A second run has passed over an image the first run processed.
C6_Witness ==
    \E p, q \in Procs :
        /\ q < p
        /\ \E k \in Images :
              /\ k <= Len(messages[q])
              /\ k <= Len(messages[p])
              /\ messages[q][k] = "processed"
              /\ messages[p][k] = "output exists"
              /\ \E r \in invoked :
                    r.proc = q /\ r.input = anatomical_images[k]
              /\ ~\E r \in invoked :
                    r.proc = p /\ r.input = anatomical_images[k]

\* C7 as stated: a run that has entered the loop never ends by an error.
C7_LoopNeverAborts ==
    [][\A p \in Procs : pc[p] = "loop" => pc'[p] \in {"loop", "done"}]_vars

\* The conditions the loop reports and passes over.
PerItemCondition(name) ==
    \/ name \notin input_files
    \/ /\ RegexMatches(name)
       /\ \/ GlobCount(name) # 1
          \/ MarkerExists(name)

\* C7 as amended: a missing input file, a missing or ambiguous mask and an
\* output that is already there are each reported and passed over, and the
\* next image is visited; a run that ends normally has visited every image;
\* and a run that ends by an error inside the loop ends by the
\* AttributeError of an image name the pattern does not match or by the
\* FileNotFoundError of a copy after the container was run.
C7_SkipsContinueOthersAbort ==
    /\ [][\A p \in Procs :
            (Visiting(p) /\ PerItemCondition(CurrentImage(p)))
            => /\ pc'[p] = "loop"
               /\ idx'[p] = idx[p] + 1
               /\ Len(messages'[p]) = Len(messages[p]) + 1
               /\ messages'[p][Len(messages'[p])] \in SkipVerdicts]_vars
    /\ [](\A p \in Procs :
            pc[p] = "done"
            => /\ idx[p] = Len(anatomical_images)
               /\ Len(messages[p]) = Len(anatomical_images))
    /\ [][\A p \in Procs :
            (pc[p] = "loop" /\ pc'[p] = "failed")
            => \/ /\ err'[p] = "AttributeError"
                  /\ ~RegexMatches(CurrentImage(p))
                  /\ invoked' = invoked
               \/ /\ err'[p] = "FileNotFoundError"
                  /\ \E r \in invoked' \ invoked :
                        r.proc = p /\ r.input = CurrentImage(p)]_vars

\* A run passed over its first image and still processed its last.
C7_Witness ==
    \E p \in Procs :
        /\ pc[p] = "done"
        /\ Len(messages[p]) > 1
        /\ messages[p][1] \in SkipVerdicts
        /\ messages[p][Len(messages[p])] = "processed"

\* C8: without the singularity executable, or with an input dataset that
\* has no descriptor or no Name in it, every run that has started has
\* raised (RuntimeError, FileNotFoundError, ValueError), no container was
\* run, no output file was written, no run is past the pre-flight, and the
\* output descriptor and the lock file are never touched.
FatalPreflight == ~singularity \/ input_desc # "named"

C8_FatalPreflightAborts ==
    /\ [](FatalPreflight =>
            /\ invoked = {}
            /\ output_files = {}
            /\ \A p \in Procs :
                  /\ pc[p] \in {"start", "failed"}
                  /\ idx[p] = 0
                  /\ pc[p] = "failed" =>
                        err[p] = IF ~singularity THEN "RuntimeError"
                                 ELSE IF input_desc = "absent"
                                      THEN "FileNotFoundError"
                                      ELSE "ValueError")
    /\ [][FatalPreflight => desc' = desc /\ lock_file' = lock_file]_vars

\* A run has raised on an input descriptor without a Name, with an image in
\* the list that would otherwise have been processed.
C8_Witness ==
    \E p \in Procs :
        /\ singularity
        /\ input_desc = "noname"
        /\ pc[p] = "failed"
        /\ err[p] = "ValueError"
        /\ ~lock_file
        /\ ItemVerdict(anatomical_images[1]) = "run"

----------------------------------------------------------------------------
(* Properties of csv_to_bids_tsv *)

\* What the conversion makes of one character.
Translated(c, inHeader) ==
    IF c = "," THEN "\t"
    ELSE IF inHeader /\ c = " " THEN "_"
    ELSE c

\* line k of the file, the empty line when the file has no such line
LineOf(file, k) == IF k <= Len(file) THEN file[k] ELSE <<>>

\* The length of the line without its trailing whitespace.
StrippedLen(line) ==
    IF \A j \in 1..Len(line) : line[j] \in Whitespace THEN 0
    ELSE CHOOSE n \in 1..Len(line) :
            /\ line[n] \notin Whitespace
            /\ \A j \in (n + 1)..Len(line) : line[j] \in Whitespace

EndsInComma(line) ==
    StrippedLen(line) > 0 /\ line[StrippedLen(line)] = ","

\* C9 as stated: the output has one line per input line, every comma
\* replaced by a tab and every space of the header by an underscore, and a
\* second application to the output changes nothing.
C9_FormatAndIdempotent ==
    /\ csv_calls = 1 =>
          /\ Len(csv_file) = Len(csv_orig)
          /\ \A k \in 1..Len(csv_file) :
                /\ Len(csv_file[k]) = Len(csv_orig[k])
                /\ \A j \in 1..Len(csv_file[k]) :
                      csv_file[k][j] = Translated(csv_orig[k][j], k = 1)
    /\ csv_calls = 2 => csv_file = csv_prev

\* C9 as amended: every line loses its trailing whitespace first; what is
\* left has every comma replaced by a tab and, in the header, every space by
\* an underscore; there is one output line per input line, and one empty
\* line for an empty input; and a second application to the output changes
\* nothing when no input line ends, whitespace aside, in a comma.
C9_StrippedFormatAndIdempotent ==
    /\ csv_calls = 1 =>
          /\ Len(csv_file) = IF csv_orig = <<>> THEN 1 ELSE Len(csv_orig)
          /\ \A k \in 1..Len(csv_file) :
                /\ Len(csv_file[k]) = StrippedLen(LineOf(csv_orig, k))
                /\ \A j \in 1..Len(csv_file[k]) :
                      csv_file[k][j] =
                          Translated(LineOf(csv_orig, k)[j], k = 1)
    /\ csv_calls = 2 =>
          ( (\A k \in 1..Len(csv_orig) : ~EndsInComma(csv_orig[k]))
            => csv_file = csv_prev )

\* Two applications to a header with a space and a comma and a row with a
\* comma, none of them ending a line.
C9_Witness ==
    /\ csv_calls = 2
    /\ Len(csv_orig) = 2
    /\ \A k \in 1..2 : ~EndsInComma(csv_orig[k])
    /\ \A k \in 1..2 : StrippedLen(csv_orig[k]) = Len(csv_orig[k])
    /\ csv_orig[1] = <<" ", "a">>
    /\ csv_orig[2] = <<",", "a">>
    /\ csv_file = << <<"_", "a">>, <<"\t", "a">> >>
    /\ csv_file = csv_prev

----------------------------------------------------------------------------
(* Properties of the output bundle *)

\* The files every processed image has in the output dataset.
MandatoryOutputs(name) ==
    LET prefix == anatomical_prefix(name)
    IN  { prefix \o <<"_space-SynthSeg_dseg", ".nii.gz">>,
          prefix \o <<"_space-SynthSeg_dseg", ".tsv">>,
          prefix \o <<"_space-SynthSeg_", anatomical_suffix(name), ".nii.gz">>,
          prefix \o <<"_space-orig_dseg", ".nii.gz">>,
          prefix \o <<"_space-orig_dseg", ".tsv">>,
          prefix \o <<"_desc-qc.tsv">>,
          prefix \o <<"_desc-volumes.tsv">> }

\* C11: whenever the segmentation file of an image of the list is in the
\* output dataset, every other mandatory output of the image is there too,
\* whatever scratch files the container left; so an image that is passed
\* over because its output exists has its whole bundle.
C11_MarkerImpliesBundle ==
    \A k \in Images :
        ( /\ RegexMatches(anatomical_images[k])
          /\ MarkerExists(anatomical_images[k]) )
        => MandatoryOutputs(anatomical_images[k]) \subseteq output_files

====
